---------------------------- MODULE Spec2Model ----------------------------
(***************************************************************************)
(* Model of the database assistant chatbot: the query executor            *)
(* (DatabaseManager.execute_query), the tool gateway                       *)
(* (AzureAgentManager._handle_tool_calls) and the run orchestrator         *)
(* (AzureAgentManager.chat_with_master_agent).                             *)
(*                                                                         *)
(* Python strings are sequences of pieces: a statement is a sequence of    *)
(* characters, a message is a sequence of string pieces, and f-string      *)
(* formatting is concatenation.  An optional value is a sequence of        *)
(* length 0 (None) or 1.                                                   *)
(***************************************************************************)
EXTENDS Integers, Sequences, FiniteSets, TLC

\* ------------------------------------------------------------------ bounds
\* Largest number of rows of the table.
MaxRows == 2
\* Largest number of invocation requests one requires-action payload carries.
MaxBatch == 2
\* Largest number of run fetches (polls) of one turn.
MaxPolls == 2

\* ------------------------------------------------------------ Python values
None == <<>>
Some(x) == <<x>>

\* ------------------------------------------------------------------ strings
LowerLetters ==
    <<"a","b","c","d","e","f","g","h","i","j","k","l","m",
      "n","o","p","q","r","s","t","u","v","w","x","y","z">>
UpperLetters ==
    <<"A","B","C","D","E","F","G","H","I","J","K","L","M",
      "N","O","P","Q","R","S","T","U","V","W","X","Y","Z">>
Whitespace == {" ", "\t", "\n"}

\* str.upper on one character.
UpperChar(c) ==
    IF \E i \in 1..26 : LowerLetters[i] = c
    THEN UpperLetters[CHOOSE i \in 1..26 : LowerLetters[i] = c]
    ELSE c

\* str.upper
StrUpper(s) == [i \in 1..Len(s) |-> UpperChar(s[i])]

\* str.strip: drops the leading and the trailing whitespace.
StrStrip(s) ==
    LET keep == {i \in 1..Len(s) : s[i] \notin Whitespace}
    IN  IF keep = {} THEN <<>>
        ELSE SubSeq(s, CHOOSE i \in keep : \A j \in keep : i <= j,
                       CHOOSE i \in keep : \A j \in keep : i >= j)

\* str.startswith
StartsWith(s, p) == Len(s) >= Len(p) /\ SubSeq(s, 1, Len(p)) = p

\* The two literals the executor compares with.
SELECT == <<"S","E","L","E","C","T">>
UPDATE == <<"U","P","D","A","T","E">>

\* The executor's lexical classification of a statement.
IsSelect(query) == StartsWith(StrUpper(StrStrip(query)), SELECT)
IsUpdate(query) == StartsWith(StrUpper(StrStrip(query)), UPDATE)

\* str(n) for the row counts of the model.
Digits == <<"0","1","2","3","4","5","6","7","8","9">>
IntStr(n) == IF n < 10 THEN Digits[n + 1] ELSE "many"

\* --------------------------------------------------------------- statements
DELETE == <<"D","E","L","E","T","E">>
Semi == <<";">>
Blank == <<" ">>

\* SELECT id, v AS id: a result set with two columns of one name, as a join
\* of two tables that both have a column id returns.
SelectAliased == SELECT \o <<" ","i","d",","," ","v"," ","A","S"," ","i","d">>

\* The statements handed to the executor.
Queries ==
    { SELECT \o <<" ","*">>,
      <<" "," ","s","e","l","e","c","t","\n">>,
      UPDATE,
      <<"\t","U","p","d","a","t","e"," ">>,
      DELETE,
      <<" ","d","e","l","e","t","e">>,
      <<>>,
      Blank,
      <<"X","Y","Z">>,
      SELECT \o Semi \o DELETE \o Semi \o SELECT,
      SELECT \o Semi \o UPDATE,
      SelectAliased }

\* --------------------------------------------------------------- exceptions
\* An exception is its class and its text.  Every class below derives from
\* Exception; the psycopg2 classes derive from psycopg2.Error.
Exc(cls, text) == [cls |-> cls, msg |-> <<text>>]
PsycopgClasses == {"psycopg2.OperationalError", "psycopg2.ProgrammingError"}
IsPsycopgError(e) == e.cls \in PsycopgClasses
StrOf(e) == e.msg

\* ------------------------------------------------------------------- store
\* The table: a sequence of rows <<id, v>>, both texts; Columns are the names the engine
\* reports for a result set.  A value "D" is one the driver returns as a
\* type json.dumps cannot encode (numeric, timestamp).
Columns == <<"id", "v">>
RowValues == {"a", "D"}
Tables ==
    UNION {[1..n -> RowValues] : n \in 0..MaxRows}
MkTable(vs) == [i \in 1..Len(vs) |-> <<IntStr(i), vs[i]>>]
InitStores == {MkTable(vs) : vs \in Tables}

\* ------------------------------------------------------------------ engine
RECURSIVE SplitCommands(_)
\* The commands of a statement text: the parts between semicolons.
SplitCommands(s) ==
    IF \A i \in 1..Len(s) : s[i] # ";" THEN <<s>>
    ELSE LET k == CHOOSE i \in 1..Len(s) :
                      s[i] = ";" /\ \A j \in 1..(i - 1) : s[j] # ";"
         IN  <<SubSeq(s, 1, k - 1)>> \o SplitCommands(SubSeq(s, k + 1, Len(s)))

StripAll(parts) == [i \in 1..Len(parts) |-> StrStrip(parts[i])]
Commands(s) == SelectSeq(StripAll(SplitCommands(s)), LAMBDA c : c # <<>>)

\* The leading keyword of a command, as the engine reads it: the leading run
\* of letters, case-folded.
Keyword(cmd) ==
    LET u == StrUpper(cmd)
        isLetter(c) == \E i \in 1..26 : UpperLetters[i] = c
        stop == {i \in 1..Len(u) : ~isLetter(u[i])}
        n == IF stop = {} THEN Len(u)
             ELSE (CHOOSE i \in stop : \A j \in stop : i <= j) - 1
    IN  SubSeq(u, 1, n)

\* The column names the engine reports for the result set of a SELECT command.
ColumnsOf(cmd) == IF cmd = SelectAliased THEN <<"id", "id">> ELSE Columns

\* One command run by the engine inside the open transaction.  st is
\* [table, rows, description, rowcount, err]: the uncommitted table, the
\* result set of the last command and its column names (None when it returns
\* none), the cursor's rowcount and the error raised.
RunCommand(st, cmd) ==
    IF st.err # None THEN st
    ELSE CASE Keyword(cmd) = SELECT ->
                [st EXCEPT !.rows = Some(st.table), !.description = Some(ColumnsOf(cmd)),
                           !.rowcount = Len(st.table)]
           [] Keyword(cmd) = UPDATE ->
                [st EXCEPT !.table = [i \in 1..Len(st.table) |-> <<st.table[i][1], "u">>],
                           !.rows = None, !.description = None, !.rowcount = Len(st.table)]
           [] Keyword(cmd) = DELETE ->
                [st EXCEPT !.table = <<>>, !.rows = None, !.description = None,
                           !.rowcount = Len(st.table)]
           [] OTHER ->
                [st EXCEPT !.err = Some(Exc("psycopg2.ProgrammingError", "syntax error"))]

RECURSIVE RunCommands(_, _)
RunCommands(st, cmds) ==
    IF cmds = <<>> THEN st ELSE RunCommands(RunCommand(st, Head(cmds)), Tail(cmds))

\* cursor.execute(query): the driver sends the whole text; the engine runs
\* its commands in order in one transaction, and the cursor holds the result
\* of the last one.  A text with no command is refused by the driver.
ExecuteCommands(st0, cmds) ==
    IF cmds = <<>>
    THEN [st0 EXCEPT !.err = Some(Exc("psycopg2.ProgrammingError",
                                      "can't execute an empty query"))]
    ELSE RunCommands(st0, cmds)
CursorExecute(table, query) ==
    ExecuteCommands([table |-> table, rows |-> None, description |-> None,
                     rowcount |-> 0, err |-> None],
                    Commands(query))

\* ---------------------------------------------------------------- executor
UnsupportedText == <<"Unsupported query type. Only SELECT and UPDATE are allowed.">>

\* dict(zip(columns, row))
ZipDict(columns, row) ==
    LET n == IF Len(columns) < Len(row) THEN Len(columns) ELSE Len(row)
    IN  [c \in {columns[i] : i \in 1..n} |->
            row[CHOOSE i \in 1..n : columns[i] = c /\ \A j \in (i + 1)..n : columns[j] # c]]

SelectResult(rows, columns) ==
    LET data == [i \in 1..Len(rows) |-> ZipDict(columns, rows[i])]
    IN  [success |-> TRUE, data |-> Some(data), row_count |-> Len(data),
         columns |-> Some(columns), error |-> None]

\* The UPDATE branch reporting no affected row.
UpdateResultNoCount(affected_rows) ==
    [success |-> TRUE, data |-> None, row_count |-> 0,
     columns |-> None, error |-> None,
     message |-> <<"Updated ", IntStr(0), " row(s)">>]

UpdateResult(affected_rows) ==
    [success |-> TRUE, data |-> None, row_count |-> affected_rows,
     columns |-> None, error |-> None,
     message |-> <<"Updated ", IntStr(affected_rows), " row(s)">>]

ErrorResult(text) ==
    [success |-> FALSE, data |-> None, row_count |-> 0, columns |-> None,
     error |-> Some(text)]

\* Where the database may fail during one call: nowhere, at connect, inside
\* cursor.execute with a driver error, at fetchall, at commit, or inside
\* cursor.execute with an exception that is no psycopg2.Error.
Faults == {"none", "connect", "execute", "fetch", "commit", "unexpected"}

\* The body of the try block, cur being what cursor.execute(query) left.
\* The connection's with block commits the transaction when the block is
\* left normally (a return included) and rolls it back when it is left by an
\* exception.  The outcome is the exception raised or the value returned, and
\* the committed table.
Raise(table, e) == [exc |-> Some(e), ret |-> None, table |-> table]
TryBodyAfterExecute(table, query, fault, cur) ==
    LET Return(result) == [exc |-> None, ret |-> Some(result), table |-> cur.table]
        LeaveWith(result) ==
            IF fault = "commit"
            THEN Raise(table, Exc("psycopg2.OperationalError", "commit failed"))
            ELSE Return(result)
    IN  IF fault = "connect"
        THEN Raise(table, Exc("psycopg2.OperationalError", "could not connect to server"))
        ELSE IF fault = "unexpected"
        THEN Raise(table, Exc("ValueError",
                              "A string literal cannot contain NUL (0x00) characters."))
        ELSE IF fault = "execute"
        THEN Raise(table, Exc("psycopg2.OperationalError",
                              "server closed the connection unexpectedly"))
        ELSE IF cur.err # None
        THEN Raise(table, cur.err[1])
        ELSE IF IsSelect(query)
        THEN IF fault = "fetch"
             THEN Raise(table, Exc("psycopg2.OperationalError",
                                   "server closed the connection unexpectedly"))
             ELSE IF cur.rows = None
             THEN Raise(table, Exc("psycopg2.ProgrammingError", "no results to fetch"))
             ELSE LeaveWith(SelectResult(cur.rows[1], cur.description[1]))
        ELSE IF IsUpdate(query)
        THEN IF fault = "commit"
             THEN Raise(table, Exc("psycopg2.OperationalError", "commit failed"))
             ELSE Return(UpdateResult(cur.rowcount))
        ELSE LeaveWith(ErrorResult(UnsupportedText))

TryBody(table, query, fault) ==
    TryBodyAfterExecute(table, query, fault, CursorExecute(table, query))

\* execute_query without its `except Exception` clause.
ExceptClausesDriverOnly(e) ==
    IF IsPsycopgError(e)
    THEN [raised |-> None, result |-> Some(ErrorResult(StrOf(e)))]
    ELSE [raised |-> Some(e), result |-> None]

\* The two except clauses of execute_query.
ExceptClauses(e) ==
    IF IsPsycopgError(e)
    THEN [raised |-> None, result |-> Some(ErrorResult(StrOf(e)))]
    ELSE [raised |-> None,
          result |-> Some(ErrorResult(<<"Unexpected error: ">> \o StrOf(e)))]

\* The try statement: the body's value, or what the except clauses make of
\* its exception.
TryExcept(b, handled) ==
    IF b.exc = None
    THEN [raised |-> None, result |-> b.ret, table |-> b.table]
    ELSE [raised |-> handled.raised, result |-> handled.result, table |-> b.table]
Handled(b) == IF b.exc = None THEN [raised |-> None, result |-> None] ELSE ExceptClauses(b.exc[1])
AfterBody(b) == TryExcept(b, Handled(b))

\* execute_query: [raised, result, table].
ExecuteQuery(table, query, fault) == AfterBody(TryBody(table, query, fault))

\* -------------------------------------------------------------------- JSON
\* The argument texts of an invocation request: a JSON object carrying
\* `query`, a JSON object without it, a JSON array, and a text that is no JSON.
ArgQuery(q) == [json |-> "object", query |-> Some(q)]
ArgNoQuery == [json |-> "object", query |-> None]
ArgArray == [json |-> "array", query |-> None]
ArgMalformed == [json |-> "malformed", query |-> None]

\* json.loads: the parsed value, or the exception raised.
JsonLoads(text) ==
    CASE text.json = "malformed" ->
            [exc |-> Some(Exc("json.JSONDecodeError", "Expecting value")), val |-> None]
      [] text.json = "array" ->
            [exc |-> None, val |-> Some([type |-> "list", items |-> <<>>])]
      [] OTHER ->
            [exc |-> None,
             val |-> Some([type |-> "dict",
                           items |-> IF text.query = None THEN <<>>
                                     ELSE [k \in {"query"} |-> text.query[1]]])]

\* dict.get(key, default)
DictGet(d, key, default) == IF key \in DOMAIN d THEN d[key] ELSE default

\* json.dumps of a QueryResult: the encoded text, or the TypeError raised for
\* a value the encoder does not know.
Encodable(result) ==
    \/ result.data = None
    \/ \A i \in 1..Len(result.data[1]) :
          \A c \in DOMAIN result.data[1][i] : result.data[1][i][c] # "D"
JsonDumps(result) ==
    IF Encodable(result)
    THEN [exc |-> None, text |-> Some(<<"json", result>>)]
    ELSE [exc |-> Some(Exc("TypeError", "Object of type Decimal is not JSON serializable")),
          text |-> None]

\* ------------------------------------------------------------ tool gateway
\* db_call: the tool function; it hands the query to the executor.
DbCall(table, query, fault) == ExecuteQuery(table, query, fault)

\* The append left out: the output is dropped.
AppendOutputDropped(outputs, tool_call_id, text) == outputs

\* tool_outputs.append({"tool_call_id": ..., "output": ...})
AppendOutput(outputs, tool_call_id, text) ==
    Append(outputs, [tool_call_id |-> tool_call_id, output |-> text])

\* The body of the loop of _handle_tool_calls for one request, in its steps.
\* acc is [exc, outputs, table, execs]: the exception that ended the loop,
\* the tool_outputs list, the committed table and the executor calls made.
\* After json.dumps(result):
HandleEncoded(acc, tool_call, body) ==
    IF body.exc # None
    THEN [acc EXCEPT !.exc = body.exc]
    ELSE [acc EXCEPT !.outputs = AppendOutput(@, tool_call.id, body.text[1])]

\* After result = self.db_call(query):
HandleExecuted(acc, tool_call, query, fault, out) ==
    IF out.raised # None
    THEN [acc EXCEPT !.exc = out.raised, !.table = out.table,
                     !.execs = Append(@, [id |-> tool_call.id, query |-> query,
                                          fault |-> fault, before |-> acc.table,
                                          out |-> out])]
    ELSE HandleEncoded([acc EXCEPT !.table = out.table,
                                   !.execs = Append(@, [id |-> tool_call.id, query |-> query,
                                                        fault |-> fault, before |-> acc.table,
                                                        out |-> out])],
                       tool_call, JsonDumps(out.result[1]))

\* After query = args.get("query", ""):
HandleQuery(acc, tool_call, query, fault) ==
    HandleExecuted(acc, tool_call, query, fault, DbCall(acc.table, query, fault))

\* After args = json.loads(tool_call.function.arguments):
HandleParsed(acc, tool_call, fault, args) ==
    IF args.exc # None THEN [acc EXCEPT !.exc = args.exc]
    ELSE IF args.val[1].type # "dict"
    THEN [acc EXCEPT !.exc = Some(Exc("AttributeError",
                                      "'list' object has no attribute 'get'"))]
    ELSE HandleQuery(acc, tool_call, DictGet(args.val[1].items, "query", <<>>), fault)

\* The loop body without the test of the tool name: every request is parsed
\* and executed.
HandleOneAnyName(acc, tool_call, fault) ==
    HandleParsed(acc, tool_call, fault, JsonLoads(tool_call.arguments))

HandleOne(acc, tool_call, fault) ==
    IF tool_call.name = "db_call"
    THEN HandleParsed(acc, tool_call, fault, JsonLoads(tool_call.arguments))
    ELSE acc

RECURSIVE HandleLoop(_, _, _)
\* The loop with `return tool_outputs` inside its body: it ends after the
\* first request.
HandleLoopReturnsInside(acc, tool_calls, faults) ==
    IF tool_calls = <<>> THEN acc
    ELSE HandleOne(acc, Head(tool_calls), Head(faults))

HandleLoop(acc, tool_calls, faults) ==
    IF tool_calls = <<>> \/ acc.exc # None THEN acc
    ELSE HandleLoop(HandleOne(acc, Head(tool_calls), Head(faults)),
                    Tail(tool_calls), Tail(faults))

\* _handle_tool_calls; faults[i] is where the database fails during the
\* executor call made for request i.
HandleToolCalls(table, tool_calls, faults) ==
    HandleLoop([exc |-> None, outputs |-> <<>>, table |-> table, execs |-> <<>>],
               tool_calls, faults)

\* ---------------------------------------------------------- remote service
\* RunStatus values the service reports.
PollingStatuses == {"queued", "in_progress", "requires_action"}
Statuses == PollingStatuses \cup {"completed", "failed", "cancelled"}

\* The turns (calls of chat_with_master_agent) and their user messages.
Turns == {1}
UserMessages == {"list all properties"}

\* The statements the agent asks the tool for, and where the database fails
\* during a tool call.
ToolQueries == {SELECT \o <<" ","*">>, UPDATE, DELETE}
ToolFaults == {"none", "connect"}

\* Invocation requests: the request at position i of a payload has id i.
ToolArguments == {ArgQuery(q) : q \in ToolQueries} \cup {ArgNoQuery, ArgArray, ArgMalformed}
RequestKinds ==
    [name : {"db_call"}, arguments : ToolArguments]
        \cup [name : {"get_weather"}, arguments : {ArgMalformed}]
MkBatch(kinds) ==
    [i \in 1..Len(kinds) |->
        [id |-> i, name |-> kinds[i].name, arguments |-> kinds[i].arguments]]
Batches == {MkBatch(kinds) : kinds \in UNION {[1..n -> RequestKinds] : n \in 0..MaxBatch}}

\* The payloads and the tables of the turns: payloads of a well-formed read,
\* a well-formed mutation, a malformed request and an unknown tool.
RunRequestKinds ==
    { [name |-> "db_call", arguments |-> ArgQuery(SELECT \o <<" ","*">>)],
      [name |-> "db_call", arguments |-> ArgQuery(UPDATE)],
      [name |-> "db_call", arguments |-> ArgMalformed],
      [name |-> "get_weather", arguments |-> ArgMalformed] }
RunBatches ==
    {MkBatch(kinds) : kinds \in UNION {[1..n -> RunRequestKinds] : n \in 0..MaxBatch}}
TurnStores == {MkTable(<<"a">>), MkTable(<<"D">>)}

\* What the service adds to a thread after the user's message.
ReplyKinds ==
    { [role |-> "assistant", text |-> <<"42">>],
      [role |-> "assistant", text |-> <<"Here are the rows">>],
      [role |-> "user", text |-> <<"and the sales?">>] }
MaxReplies == 2
Replies == UNION {[1..n -> ReplyKinds] : n \in 0..MaxReplies}

RemoteError == Exc("HttpResponseError", "service unavailable")

\* list_messages: the service lists a thread's messages newest first.
Reverse(s) == [i \in 1..Len(s) |-> s[Len(s) + 1 - i]]
ListMessages(thread_messages) == Reverse(thread_messages)

\* --------------------------------------------------------- agent directory
\* Largest number of agents the service lists.
MaxAgents == 2

\* The agents the service may list, by name; the agent listed at position i
\* has id i.  The two configured names are drawn from ConfiguredNames.
AgentNames == {"master-agent", "query-agent", "other-agent"}
ConfiguredNames == {"master-agent", "query-agent"}
MkRoster(names) == [i \in 1..Len(names) |-> [id |-> i, name |-> names[i]]]
Rosters == {MkRoster(names) : names \in UNION {[1..n -> AgentNames] : n \in 0..MaxAgents}}

\* The manager before _initialize_agents ran: __init__ set both agents to None.
NewManager(data, master_agent_name, query_agent_name) ==
    [data |-> data, master_agent_name |-> master_agent_name,
     query_agent_name |-> query_agent_name,
     master_agent |-> None, query_agent |-> None, raised |-> None, state |-> "new"]

\* The body of the loop over agents.data: if / elif.
BindAgent(m, agent) ==
    IF agent.name = m.master_agent_name
    THEN [m EXCEPT !.master_agent = Some(agent)]
    ELSE IF agent.name = m.query_agent_name
    THEN [m EXCEPT !.query_agent = Some(agent)]
    ELSE m

RECURSIVE FindAgents(_, _)
FindAgents(m, data) ==
    IF data = <<>> THEN m ELSE FindAgents(BindAgent(m, Head(data)), Tail(data))

NotFound(role, name) == [cls |-> "ValueError", msg |-> <<role, " agent '", name, "' not found">>]

\* The two tests after the loop, and the except clause that raises again.
CheckAgents(m) ==
    IF m.master_agent = None
    THEN [m EXCEPT !.raised = Some(NotFound("Master", m.master_agent_name)), !.state = "failed"]
    ELSE IF m.query_agent = None
    THEN [m EXCEPT !.raised = Some(NotFound("Query", m.query_agent_name)), !.state = "failed"]
    ELSE [m EXCEPT !.state = "ready"]

\* _initialize_agents; listed is whether list_agents returned.
InitializeAgents(m, listed) ==
    IF listed
    THEN CheckAgents(FindAgents(m, m.data))
    ELSE [m EXCEPT !.raised = Some(RemoteError), !.state = "failed"]

\* The manager the turns run on: constructed against a roster that lists
\* both configured agents.
ReadyManager ==
    InitializeAgents(NewManager(MkRoster(<<"master-agent", "query-agent">>),
                                "master-agent", "query-agent"), TRUE)

\* ------------------------------------------------------------ orchestrator
\* The condition of the while loop.
LoopContinues(status) == status \in {"queued", "in_progress", "requires_action"}

\* The fetch followed by the submission at once: the gateway call is left out.
AfterFetchSubmits(status) == IF status = "requires_action" THEN "submit" ELSE "loop"

\* Where the loop body goes after the fetch: to the gateway when the run
\* requires action, back to the loop condition otherwise.
AfterFetch(status) == IF status = "requires_action" THEN "handle" ELSE "loop"

\* The for loop over messages.data: the text of the first message whose role
\* is assistant, or the sentinel.
NoResponseText == <<"No response received from agent">>
\* The loop without its early return: the last assistant message of the
\* listing wins.
FirstAssistantTextKeepsLast(data) ==
    LET idx == {i \in 1..Len(data) : data[i].role = "assistant"}
    IN  IF idx = {} THEN NoResponseText
        ELSE data[CHOOSE i \in idx : \A j \in idx : i >= j].text

FirstAssistantText(data) ==
    LET idx == {i \in 1..Len(data) : data[i].role = "assistant"}
    IN  IF idx = {} THEN NoResponseText
        ELSE data[CHOOSE i \in idx : \A j \in idx : i <= j].text

\* The else branch with a fixed text in place of the run's status.
RunFailedTextFixed(status) == <<"Run failed with status: ", "failed">>

RunFailedText(status) == <<"Run failed with status: ", status>>

\* chat_with_master_agent without its except clause: the exception leaves
\* the call.
OnExceptionPropagates(e) == [kind |-> "raise", value |-> StrOf(e)]

\* The except clause of chat_with_master_agent: what the call ends with.
OnException(e) == [kind |-> "return", value |-> <<"Error: ">> \o StrOf(e)]
Returned(text) == [kind |-> "return", value |-> text]

\* The record of a requires-action round.
NoCycle == [names |-> <<>>, ids |-> <<>>, execs |-> <<>>, outputs |-> <<>>]
Names(batch) == [i \in 1..Len(batch) |-> batch[i].name]
Ids(batch) == [i \in 1..Len(batch) |-> batch[i].id]
ExecIds(execs) == [i \in 1..Len(execs) |-> execs[i].id]
OutputIds(outputs) == [i \in 1..Len(outputs) |-> outputs[i].tool_call_id]

\* The executor calls of a turn, by invocation id: the ids called for once
\* or more, and those called for more than once.
NoExecutions == [once |-> {}, again |-> {}]
RECURSIVE CountExecutions(_, _)
CountExecutions(e, ids) ==
    IF ids = <<>> THEN e
    ELSE CountExecutions([once |-> e.once \cup {Head(ids)},
                          again |-> IF Head(ids) \in e.once
                                    THEN e.again \cup {Head(ids)} ELSE e.again],
                         Tail(ids))

\* ------------------------------------------------------------------- state
VARIABLES
    store,       \* the committed table of the database
    lastExec,    \* the last direct execute_query call: None or Some([query, fault, before, out])
    threads,     \* the service's threads: threads[id] is the thread's messages, oldest first
    runs,        \* the service's runs: runs[id] is the id of the run's thread
    pc,          \* pc[t]: the position of turn t in chat_with_master_agent
    thread,      \* thread[t]: the id of the turn's thread, None before create_thread
    run,         \* run[t]: the turn's run object [id, status, tool_calls], None before create_run
    tool_outputs,\* tool_outputs[t]: the outputs the gateway returned, to be submitted
    polls,       \* polls[t]: the number of run fetches made
    ret,         \* ret[t]: what the call ended with, None while it runs
    log,         \* log[t]: the remote and gateway calls of the turn, in order
    cycle,       \* cycle[t]: the last requires-action round: the payload's tool names and ids,
                 \*   the ids the executor was called for, the ids of the outputs submitted
    lastHandle,  \* the last direct _handle_tool_calls call: None or Some([batch, before, out])
    agents,      \* the manager's agent resolution: the service's roster, the configured
                 \*   names, self.master_agent, self.query_agent and how __init__ ended
    connections, \* the database connections opened so far: [owner, closed, transaction]
    dbcall,      \* dbcall[c]: the execute_query call of caller c, by steps
    service,     \* service[r]: run r as the service holds it:
                 \*   [thread, status, pending, answered, rounds]
    refs,        \* refs[t]: the thread and run ids turn t passed to the service, by call
    executed     \* executed[t][id]: the executor calls turn t made for invocation id
                 \*   (2 stands for two or more)

dbVars == <<store, lastExec>>
remoteVars == <<threads, runs>>
turnVars == <<pc, thread, run, tool_outputs, polls, ret, log, cycle>>
startVars == <<agents>>
connVars == <<connections, dbcall>>
serviceVars == <<service, refs, executed>>
extVars == <<agents, connections, dbcall, service, refs, executed>>
vars == <<store, lastExec, threads, runs, pc, thread, run, tool_outputs, polls, ret, log,
          cycle, lastHandle, agents, connections, dbcall, service, refs, executed>>

\* No call of chat_with_master_agent made yet by the turns of set T, and
\* nothing created at the service.
InitTurns(T) ==
    /\ threads = <<>>
    /\ runs = <<>>
    /\ pc = [t \in T |-> "idle"]
    /\ thread = [t \in T |-> None]
    /\ run = [t \in T |-> None]
    /\ tool_outputs = [t \in T |-> <<>>]
    /\ polls = [t \in T |-> 0]
    /\ ret = [t \in T |-> None]
    /\ log = [t \in T |-> <<>>]
    /\ cycle = [t \in T |-> NoCycle]
    /\ service = <<>>
    /\ refs = [t \in T |-> {}]
    /\ executed = [t \in T |-> NoExecutions]

\* No execute_query call made yet.
InitDB ==
    /\ lastExec = None
    /\ lastHandle = None
    /\ connections = <<>>
    /\ dbcall = <<>>

Init ==
    /\ store \in InitStores
    /\ InitDB
    /\ InitTurns(Turns)
    /\ agents = ReadyManager

\* A direct call of execute_query, as the module's __main__ block makes.
Executed(query, fault, out) ==
    /\ store' = out.table
    /\ lastExec' = Some([query |-> query, fault |-> fault, before |-> store, out |-> out])
    /\ UNCHANGED <<remoteVars, turnVars, lastHandle, extVars>>
DirectExecute(query, fault) == Executed(query, fault, ExecuteQuery(store, query, fault))

NextDB == \E query \in Queries, fault \in Faults : DirectExecute(query, fault)

SpecDB == Init /\ [][NextDB]_vars

\* A direct call of _handle_tool_calls with a payload.
GatewayReturned(batch, out) ==
    /\ store' = out.table
    /\ lastHandle' = Some([batch |-> batch, before |-> store, out |-> out])
    /\ UNCHANGED <<lastExec, remoteVars, turnVars, extVars>>
GatewayCall(batch, faults) == GatewayReturned(batch, HandleToolCalls(store, batch, faults))

NextGateway ==
    \E batch \in Batches : \E faults \in [1..Len(batch) -> ToolFaults] :
        GatewayCall(batch, faults)

SpecGateway == Init /\ [][NextGateway]_vars

\* ------------------------------------------- execute_query, by its steps
\* The callers that run execute_query at the same time (one per turn in
\* progress), the largest number of connections opened in one behaviour, and
\* the statements and fault positions of their calls: a SELECT, an UPDATE, a
\* rejected statement; no fault, connect failing, a driver error and an
\* exception that is no driver error inside cursor.execute.
Callers == {1, 2}
MaxConnections == 3
CallerQueries == {SELECT \o <<" ","*">>, UPDATE, DELETE}
CallerFaults == {"none", "connect", "execute", "unexpected"}

NoCall == [pc |-> "idle", query |-> <<>>, fault |-> "none", conn |-> 0]

InitCallers ==
    /\ store \in TurnStores
    /\ lastExec = None
    /\ lastHandle = None
    /\ connections = <<>>
    /\ dbcall = [c \in Callers |-> NoCall]
    /\ InitTurns(Turns)
    /\ agents = ReadyManager

\* execute_query(query) is called.
Enter(c, query, fault) ==
    /\ dbcall[c].pc = "idle"
    /\ dbcall' = [dbcall EXCEPT ![c] = [pc |-> "connect", query |-> query,
                                        fault |-> fault, conn |-> 0]]
    /\ UNCHANGED <<store, lastExec, lastHandle, connections, remoteVars, turnVars,
                   startVars, serviceVars>>

\* with psycopg2.connect(self.connection_string) as conn: the connection is
\* opened, or connect raises and the except clause makes the result.
Connect(c) ==
    /\ dbcall[c].pc = "connect"
    /\ IF dbcall[c].fault = "connect"
       THEN /\ dbcall' = [dbcall EXCEPT ![c].pc = "return"]
            /\ UNCHANGED connections
       ELSE /\ Len(connections) < MaxConnections
            /\ connections' = Append(connections,
                                     [owner |-> c, closed |-> FALSE, transaction |-> "none"])
            /\ dbcall' = [dbcall EXCEPT ![c].pc = "body", ![c].conn = Len(connections) + 1]
    /\ UNCHANGED <<store, lastExec, lastHandle, remoteVars, turnVars, startVars, serviceVars>>

\* The body of the with block and its exit: cursor.execute begins the
\* transaction, the block is left by a return or by an exception, and the
\* exit of the connection's with block commits or rolls back.  The exit ends
\* the transaction; it does not close the connection.
LeftWith(c, out) ==
    /\ store' = out.table
    /\ connections' = [connections EXCEPT ![dbcall[c].conn].transaction = "ended"]
    /\ dbcall' = [dbcall EXCEPT ![c].pc = "return"]
    /\ UNCHANGED <<lastExec, lastHandle, remoteVars, turnVars, startVars, serviceVars>>
Body(c) ==
    /\ dbcall[c].pc = "body"
    /\ LeftWith(c, ExecuteQuery(store, dbcall[c].query, dbcall[c].fault))

\* execute_query returns its result.  No statement of the code closes the
\* connection: the object is closed when the interpreter reclaims it, which
\* a reference-counting interpreter does as the frame is dropped (reclaimed)
\* and another does at some later collection.
Return(c, reclaimed) ==
    /\ dbcall[c].pc = "return"
    /\ connections' =
          IF dbcall[c].conn # 0 /\ reclaimed
          THEN [connections EXCEPT ![dbcall[c].conn].closed = TRUE]
          ELSE connections
    /\ dbcall' = [dbcall EXCEPT ![c] = NoCall]
    /\ UNCHANGED <<store, lastExec, lastHandle, remoteVars, turnVars, startVars, serviceVars>>

\* A later collection reclaims a connection object no call refers to.
Collect(k) ==
    /\ ~connections[k].closed
    /\ \A c \in Callers : dbcall[c].conn # k
    /\ connections' = [connections EXCEPT ![k].closed = TRUE]
    /\ UNCHANGED <<store, lastExec, lastHandle, dbcall, remoteVars, turnVars,
                   startVars, serviceVars>>

NextCallers ==
    \/ \E c \in Callers :
          \/ \E query \in CallerQueries, fault \in CallerFaults : Enter(c, query, fault)
          \/ Connect(c)
          \/ Body(c)
          \/ \E reclaimed \in BOOLEAN : Return(c, reclaimed)
    \/ \E k \in 1..Len(connections) : Collect(k)

SpecCallers == InitCallers /\ [][NextCallers]_vars

\* ------------------------------------- turns against the service's runs
\* The service holds each run's status and pending requests, and moves the
\* run on by steps of its own; the turns call it.  Sessions are the turns in
\* progress at the same time, MaxRounds the largest number of payloads one
\* run asks for.
Sessions == {1, 2}
MaxRounds == 1

\* The payloads a run asks for: an UPDATE through db_call, a db_call request
\* whose arguments are no JSON, and a tool the gateway does not know.  The
\* request at position i of the payload of round k has id
\* (k - 1) * MaxBatch + i.
ServiceRequestKinds ==
    { [name |-> "db_call", arguments |-> ArgQuery(UPDATE)],
      [name |-> "db_call", arguments |-> ArgMalformed],
      [name |-> "get_weather", arguments |-> ArgMalformed] }
MkPayload(kinds, round) ==
    [i \in 1..Len(kinds) |->
        [id |-> (round - 1) * MaxBatch + i, name |-> kinds[i].name,
         arguments |-> kinds[i].arguments]]
PayloadKinds == UNION {[1..n -> ServiceRequestKinds] : n \in 1..MaxBatch}
\* The payloads of the runs of concurrent turns: one request each.
SessionPayloadKinds == [1..1 -> ServiceRequestKinds]

InitService ==
    /\ store = MkTable(<<"a">>)
    /\ InitDB
    /\ InitTurns(Sessions)
    /\ agents = ReadyManager

\* The thread id and the run id a turn passes to the service: the ids of its
\* local objects thread and run.
ThreadIdShared(t) == thread[CHOOSE s \in DOMAIN thread : thread[s] # None][1]
ThreadId(t) == thread[t][1]
RunId(t) == run[t][1].id
Ref(op, thread_id, run_id) == [op |-> op, thread_id |-> thread_id, run_id |-> run_id]

\* The call ends by the except clause.
Raised(t, e) ==
    /\ pc' = [pc EXCEPT ![t] = "done"]
    /\ ret' = [ret EXCEPT ![t] = Some(OnException(e))]

\* chat_with_master_agent is called.
StartTurn(t) ==
    /\ pc[t] = "idle"
    /\ pc' = [pc EXCEPT ![t] = "create_thread"]
    /\ UNCHANGED <<dbVars, lastHandle, remoteVars, thread, run, tool_outputs, polls, ret,
                   log, cycle, startVars, connVars, serviceVars>>

\* thread = create_thread()
OpenThread(t) ==
    /\ pc[t] = "create_thread"
    /\ \/ /\ threads' = Append(threads, <<>>)
          /\ thread' = [thread EXCEPT ![t] = Some(Len(threads) + 1)]
          /\ pc' = [pc EXCEPT ![t] = "create_message"]
          /\ UNCHANGED ret
       \/ /\ Raised(t, RemoteError)
          /\ UNCHANGED <<threads, thread>>
    /\ UNCHANGED <<dbVars, lastHandle, runs, run, tool_outputs, polls, log, cycle,
                   startVars, connVars, serviceVars>>

\* create_message(thread_id=thread.id, role="user", content=user_message)
PostMessage(t, user_message) ==
    /\ pc[t] = "create_message"
    /\ refs' = [refs EXCEPT ![t] = @ \cup {Ref("create_message", ThreadId(t), 0)}]
    /\ \/ /\ threads' = [threads EXCEPT ![ThreadId(t)] =
                            Append(@, [role |-> "user", text |-> <<user_message>>])]
          /\ pc' = [pc EXCEPT ![t] = "create_run"]
          /\ UNCHANGED ret
       \/ /\ Raised(t, RemoteError)
          /\ UNCHANGED threads
    /\ UNCHANGED <<dbVars, lastHandle, runs, thread, run, tool_outputs, polls, log, cycle,
                   startVars, connVars, service, executed>>

\* run = create_run(thread_id=thread.id, ...): the service makes the run, queued.
StartRun(t) ==
    /\ pc[t] = "create_run"
    /\ refs' = [refs EXCEPT ![t] = @ \cup {Ref("create_run", ThreadId(t), 0)}]
    /\ \/ /\ service' = Append(service, [thread |-> ThreadId(t), status |-> "queued",
                                          pending |-> <<>>, answered |-> {}, rounds |-> 0])
          /\ run' = [run EXCEPT ![t] =
                        Some([id |-> Len(service) + 1, status |-> "queued", tool_calls |-> <<>>])]
          /\ pc' = [pc EXCEPT ![t] = "loop"]
          /\ UNCHANGED ret
       \/ /\ Raised(t, RemoteError)
          /\ UNCHANGED <<service, run>>
    /\ UNCHANGED <<dbVars, lastHandle, remoteVars, thread, tool_outputs, polls, log, cycle,
                   startVars, connVars, executed>>

\* time.sleep(1); run = get_run(thread_id=thread.id, run_id=run.id): the
\* service returns the run of that id as it holds it.
Poll(t) ==
    /\ pc[t] = "loop"
    /\ LoopContinues(run[t][1].status)
    /\ refs' = [refs EXCEPT ![t] = @ \cup {Ref("get_run", ThreadId(t), RunId(t))}]
    /\ \/ /\ run' = [run EXCEPT ![t] =
                        Some([id |-> RunId(t), status |-> service[RunId(t)].status,
                              tool_calls |-> service[RunId(t)].pending])]
          /\ pc' = [pc EXCEPT ![t] = AfterFetch(service[RunId(t)].status)]
          /\ UNCHANGED ret
       \/ /\ Raised(t, RemoteError)
          /\ UNCHANGED run
    /\ UNCHANGED <<dbVars, lastHandle, remoteVars, thread, tool_outputs, polls, log, cycle,
                   startVars, connVars, service, executed>>

\* tool_outputs = self._handle_tool_calls(tool_calls)
GatewayDone(t, out) ==
    /\ store' = out.table
    /\ executed' = [executed EXCEPT ![t] = CountExecutions(@, ExecIds(out.execs))]
    /\ IF out.exc # None
       THEN /\ Raised(t, out.exc[1])
            /\ UNCHANGED tool_outputs
       ELSE /\ tool_outputs' = [tool_outputs EXCEPT ![t] = out.outputs]
            /\ pc' = [pc EXCEPT ![t] = "submit"]
            /\ UNCHANGED ret
    /\ UNCHANGED <<lastExec, lastHandle, remoteVars, thread, run, polls, log, cycle,
                   startVars, connVars, service, refs>>
Gateway(t) ==
    /\ pc[t] = "handle"
    /\ \E faults \in [1..Len(run[t][1].tool_calls) -> {"none"}] :
          GatewayDone(t, HandleToolCalls(store, run[t][1].tool_calls, faults))

\* run = submit_tool_outputs_to_run(thread_id=thread.id, run_id=run.id,
\* tool_outputs=tool_outputs): the service notes the requests answered and
\* returns the run, which it has not moved on yet.
Submit(t) ==
    /\ pc[t] = "submit"
    /\ refs' = [refs EXCEPT ![t] = @ \cup {Ref("submit", ThreadId(t), RunId(t))}]
    /\ \/ /\ service' = [service EXCEPT ![RunId(t)].answered =
                              @ \cup {tool_outputs[t][k].tool_call_id :
                                         k \in 1..Len(tool_outputs[t])}]
          /\ run' = [run EXCEPT ![t] =
                        Some([id |-> RunId(t), status |-> service[RunId(t)].status,
                              tool_calls |-> <<>>])]
          /\ tool_outputs' = [tool_outputs EXCEPT ![t] = <<>>]
          /\ pc' = [pc EXCEPT ![t] = "loop"]
          /\ UNCHANGED ret
       \/ /\ Raised(t, RemoteError)
          /\ UNCHANGED <<service, run, tool_outputs>>
    /\ UNCHANGED <<dbVars, lastHandle, remoteVars, thread, polls, log, cycle,
                   startVars, connVars, executed>>

\* The loop is left with a status other than completed.
GiveUp(t) ==
    /\ pc[t] = "loop"
    /\ ~LoopContinues(run[t][1].status)
    /\ run[t][1].status # "completed"
    /\ pc' = [pc EXCEPT ![t] = "done"]
    /\ ret' = [ret EXCEPT ![t] = Some(Returned(RunFailedText(run[t][1].status)))]
    /\ UNCHANGED <<dbVars, lastHandle, remoteVars, thread, run, tool_outputs, polls, log,
                   cycle, startVars, connVars, serviceVars>>

\* The loop is left with status completed: list_messages(thread_id=thread.id)
\* and the first assistant message of the listing is returned.
Answer(t) ==
    /\ pc[t] = "loop"
    /\ ~LoopContinues(run[t][1].status)
    /\ run[t][1].status = "completed"
    /\ refs' = [refs EXCEPT ![t] = @ \cup {Ref("list_messages", ThreadId(t), 0)}]
    /\ pc' = [pc EXCEPT ![t] = "done"]
    /\ \/ ret' = [ret EXCEPT ![t] =
                     Some(Returned(FirstAssistantText(ListMessages(threads[ThreadId(t)]))))]
       \/ ret' = [ret EXCEPT ![t] = Some(OnException(RemoteError))]
    /\ UNCHANGED <<dbVars, lastHandle, remoteVars, thread, run, tool_outputs, polls, log,
                   cycle, startVars, connVars, service, executed>>

SessionStep(t) ==
    \/ StartTurn(t)
    \/ OpenThread(t)
    \/ \E user_message \in UserMessages : PostMessage(t, user_message)
    \/ StartRun(t)
    \/ Poll(t)
    \/ Gateway(t)
    \/ Submit(t)
    \/ GiveUp(t)
    \/ Answer(t)

\* The service's own steps on run r.  A queued run starts.
ServiceStart(r) ==
    /\ service[r].status = "queued"
    /\ service' = [service EXCEPT ![r].status = "in_progress"]
    /\ UNCHANGED <<dbVars, lastHandle, remoteVars, turnVars, startVars, connVars,
                   refs, executed>>

\* A run in progress asks for tool calls.
ServiceRequire(r, kinds) ==
    /\ service[r].status = "in_progress"
    /\ service[r].rounds < MaxRounds
    /\ service' = [service EXCEPT ![r] =
                      [@ EXCEPT !.status = "requires_action",
                                !.pending = MkPayload(kinds, service[r].rounds + 1),
                                !.answered = {},
                                !.rounds = @ + 1]]
    /\ UNCHANGED <<dbVars, lastHandle, remoteVars, turnVars, startVars, connVars,
                   refs, executed>>

\* A run in progress ends; a completed run has put its answer on its thread.
ServiceEnd(r, status) ==
    /\ service[r].status = "in_progress"
    /\ service' = [service EXCEPT ![r].status = status]
    /\ threads' = IF status = "completed"
                  THEN [threads EXCEPT ![service[r].thread] =
                           Append(@, [role |-> "assistant", text |-> <<"42">>])]
                  ELSE threads
    /\ UNCHANGED <<dbVars, lastHandle, runs, turnVars, startVars, connVars, refs, executed>>

\* A run that requires action goes on once an output was submitted for
\* each of its pending requests.
ServiceResume(r) ==
    /\ service[r].status = "requires_action"
    /\ \A i \in 1..Len(service[r].pending) : service[r].pending[i].id \in service[r].answered
    /\ service' = [service EXCEPT ![r] = [@ EXCEPT !.status = "in_progress", !.pending = <<>>]]
    /\ UNCHANGED <<dbVars, lastHandle, remoteVars, turnVars, startVars, connVars,
                   refs, executed>>

ServiceLeavesInProgress(r, payloads) ==
    \/ \E kinds \in payloads : ServiceRequire(r, kinds)
    \/ \E status \in {"completed", "failed", "cancelled"} : ServiceEnd(r, status)

ServiceStep(r, payloads) ==
    \/ ServiceStart(r)
    \/ ServiceLeavesInProgress(r, payloads)
    \/ ServiceResume(r)

NextService ==
    \/ \E t \in Sessions : SessionStep(t)
    \/ \E r \in 1..Len(service) : ServiceStep(r, SessionPayloadKinds)

\* Concurrent turns against the service.
SpecService == InitService /\ [][NextService]_vars

\* One turn against the service, under fair scheduling: the turn's thread
\* keeps taking its steps (every remote call and the gateway call return), a
\* queued run starts, a run in progress leaves that status, and a run that
\* requires action goes on once every pending request has an output.  The
\* gateway step is enabled exactly when the turn is at the gateway call and
\* always leaves that position, so its weak fairness is stated as: the turn
\* is again and again not at the gateway call.
FairSessions == {1}
NextFair ==
    \/ \E t \in FairSessions : SessionStep(t)
    \/ \E r \in 1..Len(service) : ServiceStep(r, PayloadKinds)
TurnFairness(t) ==
    /\ WF_vars(StartTurn(t))
    /\ WF_vars(OpenThread(t))
    /\ WF_vars(\E user_message \in UserMessages : PostMessage(t, user_message))
    /\ WF_vars(StartRun(t))
    /\ WF_vars(Poll(t))
    /\ []<>(pc[t] # "handle")
    /\ WF_vars(Submit(t))
    /\ WF_vars(GiveUp(t))
    /\ WF_vars(Answer(t))
Fairness ==
    /\ \A t \in FairSessions : TurnFairness(t)
    /\ \A r \in 1..Cardinality(FairSessions) :
          /\ WF_vars(r <= Len(service) /\ ServiceStart(r))
          /\ WF_vars(r <= Len(service) /\ ServiceLeavesInProgress(r, PayloadKinds))
          /\ WF_vars(r <= Len(service) /\ ServiceResume(r))
SpecFair == InitService /\ [][NextFair]_vars /\ Fairness

\* The construction of the manager: __init__ calls _initialize_agents.
InitStartup ==
    /\ store = <<>>
    /\ InitDB
    /\ InitTurns(Turns)
    /\ \E data \in Rosters, master_agent_name \in ConfiguredNames,
          query_agent_name \in ConfiguredNames :
          agents = NewManager(data, master_agent_name, query_agent_name)

Construct(listed) ==
    /\ agents.state = "new"
    /\ agents' = InitializeAgents(agents, listed)
    /\ UNCHANGED <<dbVars, remoteVars, turnVars, lastHandle, connVars, serviceVars>>

NextStartup == \E listed \in BOOLEAN : Construct(listed)

SpecStartup == InitStartup /\ [][NextStartup]_vars

\* The state a turn starts in.
InitTurn == Init /\ store \in TurnStores

\* ------------------------------------------------------- one turn, by steps
\* An entry of the log: the call made and how it ended ("ok", "raised" or the
\* run status it returned).
Event(op, status) == [op |-> op, status |-> status]

\* The call ends by the except clause: step op raised e.
Fail(t, op, e) ==
    /\ pc' = [pc EXCEPT ![t] = "done"]
    /\ ret' = [ret EXCEPT ![t] = Some(OnException(e))]
    /\ log' = [log EXCEPT ![t] = Append(@, Event(op, "raised"))]

\* chat_with_master_agent is called.
Begin(t) ==
    /\ pc[t] = "idle"
    /\ pc' = [pc EXCEPT ![t] = "create_thread"]
    /\ UNCHANGED <<dbVars, remoteVars, thread, run, tool_outputs, polls, ret, log,
                   cycle, lastHandle, extVars>>

\* thread = create_thread()
CreateThread(t) ==
    /\ pc[t] = "create_thread"
    /\ \/ /\ threads' = Append(threads, <<>>)
          /\ thread' = [thread EXCEPT ![t] = Some(Len(threads) + 1)]
          /\ pc' = [pc EXCEPT ![t] = "create_message"]
          /\ log' = [log EXCEPT ![t] = Append(@, Event("create_thread", "ok"))]
          /\ UNCHANGED ret
       \/ /\ Fail(t, "create_thread", RemoteError)
          /\ UNCHANGED <<threads, thread>>
    /\ UNCHANGED <<dbVars, runs, run, tool_outputs, polls, cycle, lastHandle, extVars>>

\* create_message(thread_id, role="user", content=user_message)
CreateMessage(t, user_message) ==
    /\ pc[t] = "create_message"
    /\ \/ /\ threads' = [threads EXCEPT ![thread[t][1]] =
                            Append(@, [role |-> "user", text |-> <<user_message>>])]
          /\ pc' = [pc EXCEPT ![t] = "create_run"]
          /\ log' = [log EXCEPT ![t] = Append(@, Event("create_message", "ok"))]
          /\ UNCHANGED ret
       \/ /\ Fail(t, "create_message", RemoteError)
          /\ UNCHANGED threads
    /\ UNCHANGED <<dbVars, runs, thread, run, tool_outputs, polls, cycle, lastHandle, extVars>>

\* run = create_run(thread_id, assistant_id, tools)
CreateRun(t) ==
    /\ pc[t] = "create_run"
    /\ \/ \E status \in Statuses :
            /\ runs' = Append(runs, thread[t][1])
            /\ run' = [run EXCEPT ![t] =
                          Some([id |-> Len(runs) + 1, status |-> status, tool_calls |-> <<>>])]
            /\ pc' = [pc EXCEPT ![t] = "loop"]
            /\ log' = [log EXCEPT ![t] = Append(@, Event("create_run", status))]
            /\ UNCHANGED ret
       \/ /\ Fail(t, "create_run", RemoteError)
          /\ UNCHANGED <<runs, run>>
    /\ UNCHANGED <<dbVars, threads, thread, tool_outputs, polls, cycle, lastHandle, extVars>>

\* The loop is entered once more: time.sleep(1); run = get_run(thread_id, run_id)
GetRun(t) ==
    /\ pc[t] = "loop"
    /\ LoopContinues(run[t][1].status)
    /\ polls[t] < MaxPolls
    /\ polls' = [polls EXCEPT ![t] = @ + 1]
    /\ \/ \E status \in Statuses, batch \in RunBatches :
            /\ status # "requires_action" => batch = <<>>
            /\ cycle' = [cycle EXCEPT ![t] =
                            IF status = "requires_action"
                            THEN [names |-> Names(batch), ids |-> Ids(batch),
                                  execs |-> <<>>, outputs |-> <<>>]
                            ELSE @]
            /\ run' = [run EXCEPT ![t] =
                          Some([id |-> run[t][1].id, status |-> status, tool_calls |-> batch])]
            /\ pc' = [pc EXCEPT ![t] = AfterFetch(status)]
            /\ log' = [log EXCEPT ![t] = Append(@, Event("get_run", status))]
            /\ UNCHANGED ret
       \/ /\ Fail(t, "get_run", RemoteError)
          /\ UNCHANGED <<run, cycle>>
    /\ UNCHANGED <<dbVars, remoteVars, thread, tool_outputs, lastHandle, extVars>>

\* tool_outputs = self._handle_tool_calls(tool_calls)
HandleReturned(t, out) ==
    /\ store' = out.table
    /\ cycle' = [cycle EXCEPT ![t].execs = ExecIds(out.execs)]
    /\ IF out.exc # None
       THEN /\ Fail(t, "handle", out.exc[1])
            /\ UNCHANGED tool_outputs
       ELSE /\ tool_outputs' = [tool_outputs EXCEPT ![t] = out.outputs]
            /\ pc' = [pc EXCEPT ![t] = "submit"]
            /\ log' = [log EXCEPT ![t] = Append(@, Event("handle", "ok"))]
            /\ UNCHANGED ret
    /\ UNCHANGED <<lastExec, remoteVars, thread, run, polls, lastHandle, extVars>>
HandleCalls(t) ==
    /\ pc[t] = "handle"
    /\ \E faults \in [1..Len(run[t][1].tool_calls) -> ToolFaults] :
          HandleReturned(t, HandleToolCalls(store, run[t][1].tool_calls, faults))

\* run = submit_tool_outputs_to_run(thread_id, run_id, tool_outputs).  The
\* list tool_outputs is not read again before the next _handle_tool_calls
\* call replaces it, and the model empties it here.
SubmitOutputs(t) ==
    /\ pc[t] = "submit"
    /\ \/ \E status \in Statuses :
            /\ cycle' = [cycle EXCEPT ![t].outputs = OutputIds(tool_outputs[t])]
            /\ tool_outputs' = [tool_outputs EXCEPT ![t] = <<>>]
            /\ run' = [run EXCEPT ![t] =
                          Some([id |-> run[t][1].id, status |-> status, tool_calls |-> <<>>])]
            /\ pc' = [pc EXCEPT ![t] = "loop"]
            /\ log' = [log EXCEPT ![t] = Append(@, Event("submit", status))]
            /\ UNCHANGED ret
       \/ /\ Fail(t, "submit", RemoteError)
          /\ UNCHANGED <<run, tool_outputs, cycle>>
    /\ UNCHANGED <<dbVars, remoteVars, thread, polls, lastHandle, extVars>>

\* The loop is left with a status other than completed.
RunFailed(t) ==
    /\ pc[t] = "loop"
    /\ ~LoopContinues(run[t][1].status)
    /\ run[t][1].status # "completed"
    /\ pc' = [pc EXCEPT ![t] = "done"]
    /\ ret' = [ret EXCEPT ![t] = Some(Returned(RunFailedText(run[t][1].status)))]
    /\ UNCHANGED <<dbVars, remoteVars, thread, run, tool_outputs, polls, log,
                   cycle, lastHandle, extVars>>

\* The loop is left with status completed: messages = list_messages(thread_id),
\* and the first assistant message of the listing is returned.  By then the
\* service has added its replies to the thread.
ListAndReturn(t) ==
    /\ pc[t] = "loop"
    /\ ~LoopContinues(run[t][1].status)
    /\ run[t][1].status = "completed"
    /\ pc' = [pc EXCEPT ![t] = "done"]
    /\ \/ \E replies \in Replies :
            /\ threads' = [threads EXCEPT ![thread[t][1]] = @ \o replies]
            /\ ret' = [ret EXCEPT ![t] =
                          Some(Returned(FirstAssistantText(
                                   ListMessages(threads'[thread[t][1]]))))]
            /\ log' = [log EXCEPT ![t] = Append(@, Event("list_messages", "ok"))]
       \/ /\ ret' = [ret EXCEPT ![t] = Some(OnException(RemoteError))]
          /\ log' = [log EXCEPT ![t] = Append(@, Event("list_messages", "raised"))]
          /\ UNCHANGED threads
    /\ UNCHANGED <<dbVars, runs, thread, run, tool_outputs, polls, cycle, lastHandle, extVars>>

Step(t) ==
    \/ Begin(t)
    \/ CreateThread(t)
    \/ \E user_message \in UserMessages : CreateMessage(t, user_message)
    \/ CreateRun(t)
    \/ GetRun(t)
    \/ HandleCalls(t)
    \/ SubmitOutputs(t)
    \/ RunFailed(t)
    \/ ListAndReturn(t)

Next == \E t \in Turns : Step(t)

Spec == InitTurn /\ [][Next]_vars

\* ====================================================== the query executor
\* The last direct call, when one was made and the database did not fail.
CallMade == lastExec # None
Unclassified(query) == ~IsSelect(query) /\ ~IsUpdate(query)

\* C1: every statement that, trimmed and case-folded, begins with neither
\* SELECT nor UPDATE is answered with success=false and the fixed
\* unsupported-type error, and the store after the call equals the store
\* before it (stated for the calls during which the database does not fail).
C1_UnsupportedIsRejectedUntouched ==
    (CallMade /\ lastExec[1].fault = "none" /\ Unclassified(lastExec[1].query))
        => /\ lastExec[1].out.raised = None
           /\ lastExec[1].out.result = Some(ErrorResult(UnsupportedText))
           /\ lastExec[1].out.table = lastExec[1].before

\* C4: for every statement whose trimmed, case-folded text begins with
\* SELECT, the store after execute_query returns equals the store before the
\* call.
C4_SelectLeavesStore ==
    (CallMade /\ IsSelect(lastExec[1].query))
        => lastExec[1].out.table = lastExec[1].before

\* C5: execute_query never raises: an exception of the driver inside the try
\* block becomes the result success=false, row_count=0, data=null,
\* columns=null with the driver's text as error, and any other exception the
\* same shape with the text prefixed by 'Unexpected error: '; at connect,
\* execute, fetch and commit alike.
C5_FailuresAreResults ==
    CallMade =>
        LET c == lastExec[1]
            b == TryBody(c.before, c.query, c.fault)
        IN  /\ c.out.raised = None
            /\ c.out.result # None
            /\ c.fault \in {"connect", "execute", "commit", "unexpected"} => b.exc # None
            /\ b.exc # None =>
                 /\ c.out.result[1].success = FALSE
                 /\ c.out.result[1].row_count = 0
                 /\ c.out.result[1].data = None
                 /\ c.out.result[1].columns = None
                 /\ DOMAIN c.out.result[1] = {"success", "data", "row_count", "columns", "error"}
                 /\ c.out.result[1].error =
                        Some(IF b.exc[1].cls \in PsycopgClasses
                             THEN b.exc[1].msg
                             ELSE <<"Unexpected error: ">> \o b.exc[1].msg)

\* A call during which cursor.execute raised an exception that is no driver
\* error, answered with the prefixed text.
C5_Witness ==
    /\ CallMade
    /\ lastExec[1].fault = "unexpected"
    /\ lastExec[1].out.raised = None
    /\ lastExec[1].out.result[1].success = FALSE
    /\ Head(lastExec[1].out.result[1].error[1]) = "Unexpected error: "

\* The table after an UPDATE command: every row's value replaced.
Updated(table) == [i \in 1..Len(table) |-> <<table[i][1], "u">>]
\* The statements made of the one command UPDATE.
OneUpdate(query) == Commands(query) = <<UPDATE>>

Cursor == CursorExecute(lastExec[1].before, lastExec[1].query)

\* C16: for a statement beginning with SELECT that returns N rows with
\* columns c1..ck, execute_query returns success=true, error=null,
\* row_count=N, columns=[c1..ck] in the engine's order, and data is the
\* sequence of N mappings in the engine's row order, each with exactly the
\* keys c1..ck and, under every key cj, the j-th value of its row.
C16_SelectResultShape ==
    (/\ CallMade
     /\ IsSelect(lastExec[1].query)
     /\ lastExec[1].fault = "none"
     /\ Cursor.err = None
     /\ Cursor.rows # None) =>
        LET r == lastExec[1].out.result[1]
            rows == Cursor.rows[1]
            cols == Cursor.description[1]
        IN  /\ lastExec[1].out.raised = None
            /\ r.success = TRUE
            /\ r.error = None
            /\ r.row_count = Len(rows)
            /\ r.columns = Some(cols)
            /\ Len(r.data[1]) = Len(rows)
            /\ \A i \in 1..Len(rows) :
                  /\ DOMAIN r.data[1][i] = {cols[j] : j \in 1..Len(cols)}
                  /\ \A j \in 1..Len(cols) : r.data[1][i][cols[j]] = rows[i][j]

\* ========================================================= the tool gateway
HandleMade == lastHandle # None
\* The positions of the payload's requests that name db_call.
DbCallPositions(batch) == {i \in 1..Len(batch) : batch[i].name = "db_call"}
\* The outputs that carry the invocation id of request i.
OutputsFor(outputs, batch, i) ==
    {k \in 1..Len(outputs) : outputs[k].tool_call_id = batch[i].id}

\* C6: for a payload of K requests all naming db_call, _handle_tool_calls
\* returns exactly K outputs, each carrying the id of a distinct request, and
\* each body is the JSON encoding of the QueryResult the executor returned
\* for that request's query.
C6_AllDbCallsAnswered ==
    (HandleMade /\ DbCallPositions(lastHandle[1].batch) = DOMAIN lastHandle[1].batch)
        => LET h == lastHandle[1]
           IN  /\ h.out.exc = None
               /\ Len(h.out.outputs) = Len(h.batch)
               /\ Len(h.out.execs) = Len(h.batch)
               /\ \A i \in 1..Len(h.batch) :
                     /\ Cardinality(OutputsFor(h.out.outputs, h.batch, i)) = 1
                     /\ h.out.execs[i].id = h.batch[i].id
                     /\ \A k \in OutputsFor(h.out.outputs, h.batch, i) :
                           h.out.outputs[k].output = <<"json", h.out.execs[i].out.result[1]>>

\* The argument texts that are not a JSON object carrying `query`.
BadArguments == {ArgNoQuery, ArgArray, ArgMalformed}

\* C7: a payload in which one db_call request has arguments without `query`
\* or otherwise malformed does not make _handle_tool_calls raise, and the
\* other db_call requests of the payload get their outputs (stated for the
\* tables whose every row value json.dumps encodes).
C7_BadArgumentsKeepBatch ==
    (/\ HandleMade
     /\ Cardinality({i \in DbCallPositions(lastHandle[1].batch) :
                        lastHandle[1].batch[i].arguments \in BadArguments}) = 1
     /\ \A i \in 1..Len(lastHandle[1].before) : lastHandle[1].before[i][2] # "D")
        => LET h == lastHandle[1]
           IN  /\ h.out.exc = None
               /\ \A i \in DbCallPositions(h.batch) :
                     Cardinality(OutputsFor(h.out.outputs, h.batch, i)) = 1

\* C8: a db_call request whose arguments carry no `query` reaches the
\* executor with the empty string, and the executor answers with
\* success=false and the fixed unsupported-type error and leaves the store
\* as it was (while the database works).
C8_MissingQueryIsRejected ==
    HandleMade =>
        LET h == lastHandle[1]
        IN  \A i \in 1..Len(h.out.execs) :
               (/\ h.out.execs[i].fault = "none"
                /\ \E j \in DbCallPositions(h.batch) :
                      h.batch[j].id = h.out.execs[i].id /\ h.batch[j].arguments = ArgNoQuery)
                  => /\ h.out.execs[i].query = <<>>
                     /\ h.out.execs[i].out.result = Some(ErrorResult(UnsupportedText))
                     /\ h.out.execs[i].out.table = h.out.execs[i].before

\* The payload's requests that name db_call, in payload order, and where the
\* database failed during the executor calls made.
DbCallRequests(batch) == SelectSeq(batch, LAMBDA r : r.name = "db_call")
FaultsOf(execs, n) == [k \in 1..n |-> IF k <= Len(execs) THEN execs[k].fault ELSE "none"]

\* C18: a request naming a tool other than db_call is skipped: the call ends
\* exactly as the call for the payload without such requests ends (same
\* outputs, same executor calls, same store, same exception if a db_call
\* request raised), so the request gets no output, its arguments are not
\* parsed, the executor is not called for it and it raises nothing; the
\* outputs returned carry the ids of the payload's db_call requests, in
\* payload order, and a payload without db_call requests returns no output.
C18_OtherToolsSkipped ==
    HandleMade =>
        LET h == lastHandle[1]
            reqs == DbCallRequests(h.batch)
        IN  /\ h.out = HandleToolCalls(h.before, reqs, FaultsOf(h.out.execs, Len(reqs)))
            /\ h.out.exc = None => OutputIds(h.out.outputs) = Ids(reqs)
            /\ \A k \in 1..Len(h.out.execs) :
                  \E i \in DbCallPositions(h.batch) : h.batch[i].id = h.out.execs[k].id
            /\ reqs = <<>> =>
                  h.out = [exc |-> None, outputs |-> <<>>, table |-> h.before, execs |-> <<>>]

\* A payload whose first request names get_weather, with arguments that are
\* no JSON, and whose second names db_call: one output, for the second.
C18_Witness ==
    /\ HandleMade
    /\ Names(lastHandle[1].batch) = <<"get_weather", "db_call">>
    /\ lastHandle[1].batch[1].arguments = ArgMalformed
    /\ lastHandle[1].out.exc = None
    /\ OutputIds(lastHandle[1].out.outputs) = <<2>>
    /\ ExecIds(lastHandle[1].out.execs) = <<2>>

\* ======================================================= the orchestrator
Done(t) == pc[t] = "done"
\* The entries of the turn's log made by call op.
Calls(t, op) == SelectSeq(log[t], LAMBDA e : e.op = op)
SomeStepRaised(t) == \E i \in 1..Len(log[t]) : log[t][i].status = "raised"
StartsWithError(text) == Len(text) >= 1 /\ Head(text) = "Error: "

\* C2: chat_with_master_agent never raises: every call that ends, ends by
\* returning a text, and when a step raised (thread create, message post, run
\* create, run fetch, the gateway, tool-output submit, message list) the text
\* returned starts with 'Error: '.
C2_TurnAlwaysReturnsText ==
    \A t \in Turns :
        /\ Done(t) <=> ret[t] # None
        /\ Done(t) =>
             /\ ret[t][1].kind = "return"
             /\ SomeStepRaised(t) => StartsWithError(ret[t][1].value)

\* A turn ended by the gateway raising on a request's arguments.
C2_Witness ==
    \E t \in Turns :
        /\ Done(t)
        /\ log[t][Len(log[t])] = Event("handle", "raised")
        /\ ret[t][1] = Returned(<<"Error: ", "Expecting value">>)

\* The requests of the run's payload, seen at the submission.
ExactlyOneOutput(t, i) ==
    Cardinality(OutputsFor(tool_outputs[t], run[t][1].tool_calls, i)) = 1

NewestAssistantText(messages) ==
    LET idx == {i \in 1..Len(messages) : messages[i].role = "assistant"}
    IN  IF idx = {} THEN None
        ELSE Some(messages[CHOOSE i \in idx : \A j \in idx : j <= i].text)

\* The turn ran the script: the run was created queued, the first fetch
\* showed requires-action with one db_call request, the run came back from
\* the submission still polling or completed, a second fetch (if any) showed
\* completed, no call raised, and the thread holds an assistant message.
Scripted(t) ==
    /\ Done(t)
    /\ ~SomeStepRaised(t)
    /\ Calls(t, "create_run") = <<Event("create_run", "queued")>>
    /\ Len(Calls(t, "get_run")) \in {1, 2}
    /\ Calls(t, "get_run")[1].status = "requires_action"
    /\ cycle[t].names = <<"db_call">>
    /\ Len(Calls(t, "get_run")) = 2 => Calls(t, "get_run")[2].status = "completed"
    /\ run[t][1].status = "completed"
    /\ NewestAssistantText(threads[thread[t][1]]) # None

\* C9: in a scripted turn the call returns the final assistant message, the
\* executor is called exactly once and the tool outputs are submitted exactly
\* once, with exactly one entry that carries the request's id.
C9_ScriptedTurn ==
    \A t \in Turns :
        Scripted(t) =>
            /\ ret[t][1] = Returned(NewestAssistantText(threads[thread[t][1]])[1])
            /\ Len(Calls(t, "handle")) = 1
            /\ cycle[t].execs = cycle[t].ids
            /\ Len(Calls(t, "submit")) = 1
            /\ cycle[t].outputs = cycle[t].ids
            /\ Len(cycle[t].outputs) = 1

\* The scripted turn in full: queued, requires-action, completed, and the
\* answer "42".
C9_Witness ==
    \E t \in Turns :
        /\ Scripted(t)
        /\ Len(Calls(t, "get_run")) = 2
        /\ ret[t][1] = Returned(<<"42">>)

\* The turn ended after a message listing that did not raise.
Listed(t) ==
    /\ Done(t)
    /\ Len(log[t]) >= 1
    /\ log[t][Len(log[t])] = Event("list_messages", "ok")

\* C10: when the loop ends with status completed the call returns the text of
\* the newest assistant message of the thread, wherever the thread's
\* assistant messages stand, and the sentinel when the thread holds none.
C10_NewestAssistantReturned ==
    \A t \in Turns :
        Listed(t) =>
            ret[t][1] =
                Returned(IF NewestAssistantText(threads[thread[t][1]]) = None
                         THEN <<"No response received from agent">>
                         ELSE NewestAssistantText(threads[thread[t][1]])[1])

\* A thread with two assistant messages of different texts: the later one is
\* returned.
C10_Witness ==
    \E t \in Turns :
        /\ Listed(t)
        /\ Len(threads[thread[t][1]]) = 3
        /\ threads[thread[t][1]][2] = [role |-> "assistant", text |-> <<"42">>]
        /\ threads[thread[t][1]][3] = [role |-> "assistant", text |-> <<"Here are the rows">>]
        /\ ret[t][1] = Returned(<<"Here are the rows">>)

\* The statuses that end the loop other than completed.
FailureStatuses == Statuses \ {"queued", "in_progress", "requires_action", "completed"}
\* The positions of the turn's log at which a call returned such a status.
FailureObserved(t) ==
    {i \in 1..Len(log[t]) : log[t][i].status \in FailureStatuses}

\* C11: when a run object returned by the service (at run creation, at a
\* fetch or at a submission) carries a status outside queued, in-progress,
\* requires-action and completed, the turn makes no further fetch, no gateway
\* call, no submission and no message listing, and it ends by returning the
\* text 'Run failed with status: ' followed by that status.
C11_FailureStatusEndsTurn ==
    \A t \in Turns :
        \A i \in FailureObserved(t) :
            /\ i = Len(log[t])
            /\ log[t][i].op \in {"create_run", "get_run", "submit"}
            /\ run[t][1].status = log[t][i].status
            /\ pc[t] \in {"loop", "done"}
            /\ ~LoopContinues(run[t][1].status)
            /\ Done(t) =>
                  /\ ret[t][1].kind = "return"
                  /\ ret[t][1].value = <<"Run failed with status: ", log[t][i].status>>
                  /\ \E k \in 1..Len(ret[t][1].value) : ret[t][1].value[k] = log[t][i].status

\* A turn whose second fetch showed the run cancelled, ended with that status
\* in the text returned.
C11_Witness ==
    \E t \in Turns :
        /\ Done(t)
        /\ Len(Calls(t, "get_run")) = 2
        /\ log[t][Len(log[t])] = Event("get_run", "cancelled")
        /\ ret[t][1] = Returned(<<"Run failed with status: ", "cancelled">>)

\* The calls of the turn's log, by position.
Op(t, i) == log[t][i].op
Status(t, i) == log[t][i].status

\* C13: the calls of a turn are made in order: thread creation, then the
\* message post, then run creation, and only then fetches; the gateway is
\* called right after a fetch that showed requires-action, a submission is
\* made right after the gateway returned, having gone through every request
\* of that fetch's payload, a fetch follows only run creation, a fetch or a
\* submission that left the run polling, and the message listing follows
\* only a call that returned the run completed and is the turn's last call.
C13_CallsInOrder ==
    \A t \in Turns :
        /\ \A i \in 1..Len(log[t]) :
              /\ Op(t, i) = "create_thread" <=> i = 1
              /\ Op(t, i) = "create_message" <=> i = 2
              /\ Op(t, i) = "create_run" <=> i = 3
              /\ i > 1 => Status(t, i - 1) # "raised"
              /\ Op(t, i) = "get_run" =>
                    /\ Op(t, i - 1) \in {"create_run", "get_run", "submit"}
                    /\ Status(t, i - 1) \in {"queued", "in_progress"}
                          \/ (Status(t, i - 1) = "requires_action" /\ Op(t, i - 1) # "get_run")
              /\ Op(t, i) = "handle" => (Op(t, i - 1) = "get_run" /\ Status(t, i - 1) = "requires_action")
              /\ Op(t, i) = "submit" => (Op(t, i - 1) = "handle" /\ Status(t, i - 1) = "ok")
              /\ Op(t, i) = "list_messages" =>
                    /\ Op(t, i - 1) \in {"create_run", "get_run", "submit"}
                    /\ Status(t, i - 1) = "completed"
                    /\ i = Len(log[t])
        /\ pc[t] = "submit" =>
              /\ cycle[t].ids = Ids(run[t][1].tool_calls)
              /\ cycle[t].execs =
                     SelectSeq(cycle[t].ids, LAMBDA id : cycle[t].names[id] = "db_call")
        /\ (Len(log[t]) >= 1 /\ Op(t, Len(log[t])) = "submit") =>
              cycle[t].execs =
                  SelectSeq(cycle[t].ids, LAMBDA id : cycle[t].names[id] = "db_call")

\* A turn that made every kind of call: the payload of two db_call requests
\* was handled and submitted, the next fetch showed completed and the
\* messages were listed.
C13_Witness ==
    \E t \in Turns :
        /\ Done(t)
        /\ [i \in 1..Len(log[t]) |-> Op(t, i)] =
              <<"create_thread", "create_message", "create_run", "get_run",
                "handle", "submit", "get_run", "list_messages">>
        /\ cycle[t].execs = <<1, 2>>

\* ===================================================== the agent directory
\* The roster lists an agent of that name.
RosterHas(name) == \E i \in 1..Len(agents.data) : agents.data[i].name = name
\* _initialize_agents ran and list_agents returned.
Resolved == agents.state # "new" /\ (agents.raised # None => agents.raised[1].cls = "ValueError")

\* C20: _initialize_agents raises exactly when the master name or the query
\* name matches no listed agent; whenever both names match a listed agent,
\* equal names included, it completes with master_agent bound to an agent of
\* the master name and query_agent bound to an agent of the query name.
C20_FailsExactlyWhenMissing ==
    Resolved =>
        /\ agents.state = "failed"
              <=> (~RosterHas(agents.master_agent_name) \/ ~RosterHas(agents.query_agent_name))
        /\ (RosterHas(agents.master_agent_name) /\ RosterHas(agents.query_agent_name)) =>
              /\ agents.raised = None
              /\ agents.master_agent # None
              /\ agents.master_agent[1].name = agents.master_agent_name
              /\ agents.query_agent # None
              /\ agents.query_agent[1].name = agents.query_agent_name

\* ================================================ connections of the executor
\* The calls of execute_query in progress that use connection k.
UsersOf(k) == {c \in Callers : dbcall[c].pc \in {"body", "return"} /\ dbcall[c].conn = k}

\* C17: every execute_query call opens its own connection, and when it has
\* returned, by whatever path, that connection is closed and its
\* transaction ended: every connection that is open belongs to exactly one
\* call in progress, no connection is used by two calls, and a call about
\* to return has its transaction ended.
C17_ConnectionPerCallClosed ==
    /\ \A k \in 1..Len(connections) :
          /\ Cardinality(UsersOf(k)) <= 1
          /\ ~connections[k].closed => UsersOf(k) = {connections[k].owner}
          /\ UsersOf(k) = {} => connections[k].transaction = "ended"
    /\ \A c \in Callers :
          /\ dbcall[c].pc = "body" =>
                (dbcall[c].conn # 0 /\ connections[dbcall[c].conn].owner = c)
          /\ (dbcall[c].pc = "return" /\ dbcall[c].conn # 0) =>
                connections[dbcall[c].conn].transaction = "ended"
          /\ \A d \in Callers \ {c} :
                dbcall[c].conn # 0 => dbcall[c].conn # dbcall[d].conn

\* The part of C17 the code keeps: connections are per call and never
\* shared, and the transaction is ended when the call returns.
C17_TransactionPerCallEnded ==
    /\ \A k \in 1..Len(connections) :
          /\ Cardinality(UsersOf(k)) <= 1
          /\ UsersOf(k) = {} => connections[k].transaction = "ended"
    /\ \A c \in Callers :
          (dbcall[c].pc = "return" /\ dbcall[c].conn # 0) =>
              connections[dbcall[c].conn].transaction = "ended"

\* ============================================== turns against the service
\* C12: every turn eventually returns: under fair scheduling of the turn,
\* with every remote call returning, the run leaving queued and in-progress
\* eventually and leaving requires-action once an output was submitted for
\* each of its pending requests, chat_with_master_agent ends for every run,
\* also for runs whose pending requests name tools other than db_call.
C12_TurnEventuallyReturns == \A t \in FairSessions : <>(pc[t] = "done")

\* C14: each turn owns its thread and its run.  A turn that has a thread has
\* one no other turn has, and the service holds one thread for each such
\* turn; a turn has at most one run, made on its own thread, so no thread
\* carries two runs; and with the turns interleaved, every message post, run
\* creation, run fetch, output submission and message listing of a turn
\* names that turn's own thread id and, where it names a run, its own run id.
HasThread(t) == thread[t] # None
HasRun(t) == run[t] # None
OwnThread ==
    /\ \A s, t \in Sessions :
          HasThread(s) /\ HasThread(t) /\ s # t => thread[s][1] # thread[t][1]
    /\ Len(threads) = Cardinality({t \in Sessions : HasThread(t)})
OwnRun ==
    /\ \A s, t \in Sessions : HasRun(s) /\ HasRun(t) /\ s # t => run[s][1].id # run[t][1].id
    /\ Len(service) = Cardinality({t \in Sessions : HasRun(t)})
    /\ \A t \in Sessions : HasRun(t) => service[run[t][1].id].thread = thread[t][1]
    /\ \A q, r \in 1..Len(service) : q # r => service[q].thread # service[r].thread
OwnReferences ==
    \A t \in Sessions : \A ref \in refs[t] :
       /\ HasThread(t) /\ ref.thread_id = thread[t][1]
       /\ ref.op \in {"get_run", "submit"} => HasRun(t) /\ ref.run_id = run[t][1].id
C14_TurnOwnsThreadAndRun == OwnThread /\ OwnRun /\ OwnReferences
\* Two turns interleaved: the turn with the first thread has the second run,
\* and both have fetched their run, submitted outputs and listed messages.
C14_Witness ==
    /\ HasRun(1) /\ HasRun(2) /\ thread[1][1] = 1 /\ run[1][1].id = 2
    /\ \A t \in Sessions :
          {"get_run", "submit", "list_messages"} \subseteq {ref.op : ref \in refs[t]}

\* C19: within one turn the executor is called at most once for each
\* invocation id, whatever statuses the service returns, also when the run
\* is still shown requiring action with the same pending requests at the
\* fetch after a submission.
C19_ExecutedAtMostOnce == \A t \in Sessions : executed[t].again = {}
============================================================================
